---- MODULE Spec2Model ----
(***************************************************************************)
(* Model of dlfs.py: the lost-and-found record store (DLFSController), its *)
(* JSON persistence helpers (load_data / save_data) and the module-level   *)
(* bootstrap of the data directory.                                        *)
(*                                                                         *)
(* Strings that the code inspects character by character (item names and   *)
(* search keywords) are sequences of one-character strings; every other    *)
(* string is an opaque TLA+ string.  A generated identifier f"ITEM-{n}" is *)
(* the pair <<"ITEM", n>>, f"CLM-{n}" the pair <<"CLM", n>>.               *)
(***************************************************************************)
EXTENDS Integers, Sequences, FiniteSets, TLC

VARIABLES users, items, claims, files, call, ret

vars == <<users, items, claims, files, call, ret>>

----------------------------------------------------------------------------
(* Bounds of the exploration *)

(* at most this many item and claim records together *)
MaxRecords == 3
(* this many values of the random number behind an identifier *)
NumIds == 2

(* random.randint(1000, 9999): the lower end is the program's, the width  *)
(* of the range is cut down to NumIds values.                             *)
IdLo == 1000

RandInts == IdLo .. (IdLo + NumIds - 1)

----------------------------------------------------------------------------
(* Values *)

FileNames == {"users.json", "items.json", "claims.json"}

None == [none |-> TRUE]

DefaultAdmin ==
  [id |-> 1, name |-> "Admin", email |-> "admin@dlfs.com",
   password |-> "admin123", role |-> "admin"]

Bob ==
  [id |-> 2, name |-> "Bob", email |-> "bob@dlfs.com",
   password |-> "pw", role |-> "user"]

(* a second account with Bob's credentials: email is not enforced unique *)
Twin ==
  [id |-> 3, name |-> "Twin", email |-> "bob@dlfs.com",
   password |-> "pw", role |-> "user"]

(* same email as the admin, another password *)
Eve ==
  [id |-> 4, name |-> "Eve", email |-> "admin@dlfs.com",
   password |-> "pw", role |-> "user"]

(* user collections a users.json written by hand can hold *)
UserLists ==
  { <<DefaultAdmin>>, <<Twin, Eve, Bob, DefaultAdmin>> }

(* email and password typed at the login prompt *)
LoginInputs ==
  { <<"admin@dlfs.com", "admin123">>, <<"admin@dlfs.com", "pw">>,
    <<"bob@dlfs.com", "pw">> }

(* what the menu passes to report_item: name, description, location, type *)
ReportInputs ==
  { [name |-> <<"A", "b">>, description |-> "black", location |-> "hall",
     item_type |-> "lost"],
    [name |-> <<"b">>, description |-> "blue", location |-> "gym",
     item_type |-> "misc"] }

Keywords == { <<>>, <<"B">>, <<"a", "B">> }

(* Bob's id: a known user under one user collection, unknown under the others *)
UserIdArgs == {2}

ItemIds == { <<"ITEM", n>> : n \in RandInts }
ClaimIds == { <<"CLM", n>> : n \in RandInts }

(* the item id of a claim is typed in by the user: any string, here one *)
(* that report_item can generate and one that it never generates        *)
ItemIdArgs == { <<"ITEM", IdLo>>, <<"ITEM", 0>> }

(* the claim id of an approval is typed in by the admin: any string *)
ClaimIdArgs == ClaimIds

----------------------------------------------------------------------------
(* Storage adapter *)

(* content of a file that json.load rejects (empty, truncated, garbage) *)
Corrupt == [kind |-> "garbage"]

(* the file does not exist *)
Missing == [kind |-> "missing"]

(* json.dump(data, file, indent=4): the text that encodes data *)
json_dump(data) == [kind |-> "json", value |-> data]

(* load_data: json.load, or [] on JSONDecodeError *)
load_data(content) ==
  IF content.kind = "json" THEN content.value ELSE <<>>

(* save_data: overwrite the whole file *)
save_data(fs, file_name, data) ==
  [fs EXCEPT ![file_name] = json_dump(data)]

(* module level: create each file that does not exist *)
Bootstrap(dir) ==
  [f \in FileNames |->
     IF dir[f] = Missing
       THEN IF f = "users.json" THEN json_dump(<<DefaultAdmin>>)
                                ELSE json_dump(<<>>)
       ELSE dir[f]]

(* save_all that rewrites only the two collections the store appends to *)
save_all_without_users(fs, us, its, cls) ==
  save_data(save_data(fs, "items.json", its), "claims.json", cls)

(* DLFSController.save_all *)
save_all(fs, us, its, cls) ==
  save_data(save_data(save_data(fs, "users.json", us),
                      "items.json", its),
            "claims.json", cls)

(* what the data directory can hold when the program starts *)
DirStates ==
  { d \in [FileNames -> {Missing, Corrupt} \cup { json_dump(u) : u \in UserLists }] :
      /\ d["items.json"] \in {Missing, Corrupt, json_dump(<<>>)}
      /\ d["claims.json"] \in {Missing, Corrupt, json_dump(<<>>)} }

----------------------------------------------------------------------------
(* Strings *)

(* str.lower() on one character of the alphabet used *)
LowerChar(ch) ==
  CASE ch = "A" -> "a"
    [] ch = "B" -> "b"
    [] OTHER -> ch

lower(s) == [i \in 1..Len(s) |-> LowerChar(s[i])]

(* Python's  k in s  on strings *)
str_in(k, s) ==
  \E off \in 0..(Len(s) - Len(k)) : SubSeq(s, off + 1, off + Len(k)) = k

----------------------------------------------------------------------------
(* Record constructors *)

(* ReportedItem with description and location assigned crosswise *)
ReportedItem_crossed(n, name, description, location, item_type) ==
  [item_id |-> <<"ITEM", n>>, name |-> name, description |-> location,
   location |-> description, item_type |-> item_type, status |-> "reported"]

(* ReportedItem(name, description, location, item_type).__dict__ *)
ReportedItem(n, name, description, location, item_type) ==
  [item_id |-> <<"ITEM", n>>, name |-> name, description |-> description,
   location |-> location, item_type |-> item_type, status |-> "reported"]

(* Claim born approved *)
Claim_approved(n, user_id, item_id) ==
  [claim_id |-> <<"CLM", n>>, user_id |-> user_id, item_id |-> item_id,
   status |-> "approved"]

(* Claim(user_id, item_id).__dict__ *)
Claim(n, user_id, item_id) ==
  [claim_id |-> <<"CLM", n>>, user_id |-> user_id, item_id |-> item_id,
   status |-> "pending"]

----------------------------------------------------------------------------
(* Pure parts of the controller's methods *)

(* login that accepts a user on the email alone *)
RECURSIVE login_scan_email_only(_, _, _)
login_scan_email_only(us, email, password) ==
  IF us = <<>> THEN None
  ELSE IF Head(us).email = email
         THEN Head(us)
         ELSE login_scan_email_only(Tail(us), email, password)

(* login: first user whose email and password both match, else None *)
RECURSIVE login_scan(_, _, _)
login_scan(us, email, password) ==
  IF us = <<>> THEN None
  ELSE IF Head(us).email = email /\ Head(us).password = password
         THEN Head(us)
         ELSE login_scan(Tail(us), email, password)

(* search_items that lower-cases the name but not the keyword *)
RECURSIVE search_scan_raw_keyword(_, _)
search_scan_raw_keyword(its, keyword) ==
  IF its = <<>> THEN <<>>
  ELSE (IF str_in(keyword, lower(Head(its).name))
          THEN <<Head(its)>> ELSE <<>>)
       \o search_scan_raw_keyword(Tail(its), keyword)

(* search_items: the list comprehension over self.items *)
RECURSIVE search_scan(_, _)
search_scan(its, keyword) ==
  IF its = <<>> THEN <<>>
  ELSE (IF str_in(lower(keyword), lower(Head(its).name))
          THEN <<Head(its)>> ELSE <<>>)
       \o search_scan(Tail(its), keyword)

(* outer loop that, finding no match, goes on with the last claim visited *)
RECURSIVE first_claim_leaky(_, _, _)
first_claim_leaky(cls, claim_id, i) ==
  IF i > Len(cls) THEN Len(cls)
  ELSE IF cls[i].claim_id = claim_id THEN i
       ELSE first_claim_leaky(cls, claim_id, i + 1)

(* outer loop that keeps the last claim with this id instead of the first *)
RECURSIVE first_claim_last(_, _, _)
first_claim_last(cls, claim_id, i) ==
  IF i > Len(cls) THEN 0
  ELSE IF first_claim_last(cls, claim_id, i + 1) # 0
         THEN first_claim_last(cls, claim_id, i + 1)
         ELSE IF cls[i].claim_id = claim_id THEN i ELSE 0

(* approve_claim, outer loop: index of the first claim with this id, or 0 *)
RECURSIVE first_claim(_, _, _)
first_claim(cls, claim_id, i) ==
  IF i > Len(cls) THEN 0
  ELSE IF cls[i].claim_id = claim_id THEN i
       ELSE first_claim(cls, claim_id, i + 1)

(* inner loop that stops at the first item with this item_id *)
mark_claimed_first(its, item_id) ==
  [j \in 1..Len(its) |->
     IF /\ its[j].item_id = item_id
        /\ \A k \in 1..(j - 1) : its[k].item_id # item_id
       THEN [its[j] EXCEPT !.status = "claimed"]
       ELSE its[j]]

(* inner loop that takes the claimed items out of the catalogue *)
mark_claimed_removed(its, item_id) ==
  LET Other(it) == it.item_id # item_id IN SelectSeq(its, Other)

(* inner loop that writes the claim's status word into the item *)
mark_claimed_approved(its, item_id) ==
  [j \in 1..Len(its) |->
     IF its[j].item_id = item_id
       THEN [its[j] EXCEPT !.status = "approved"]
       ELSE its[j]]

(* approve_claim, inner loop: every item with this item_id becomes claimed *)
mark_claimed(its, item_id) ==
  [j \in 1..Len(its) |->
     IF its[j].item_id = item_id
       THEN [its[j] EXCEPT !.status = "claimed"]
       ELSE its[j]]

----------------------------------------------------------------------------
(* State machine *)

Init ==
  \E dir \in DirStates :
    /\ files = Bootstrap(dir)
    /\ users = load_data(Bootstrap(dir)["users.json"])
    /\ items = load_data(Bootstrap(dir)["items.json"])
    /\ claims = load_data(Bootstrap(dir)["claims.json"])
    /\ call = [op |-> "__init__"]
    /\ ret = None

login ==
  \E in \in LoginInputs :
    /\ call' = [op |-> "login", email |-> in[1], password |-> in[2]]
    /\ ret' = login_scan(users, in[1], in[2])
    /\ UNCHANGED <<users, items, claims, files>>

report_item ==
  /\ Len(items) + Len(claims) < MaxRecords
  /\ \E in \in ReportInputs, user_id \in UserIdArgs, n \in RandInts :
       LET item == ReportedItem(n, in.name, in.description, in.location,
                                in.item_type)
       IN /\ items' = Append(items, item)
          /\ files' = save_all(files, users, items', claims)
          /\ call' = [op |-> "report_item", name |-> in.name,
                      description |-> in.description,
                      location |-> in.location,
                      item_type |-> in.item_type, user_id |-> user_id]
          /\ ret' = item.item_id
          /\ UNCHANGED <<users, claims>>

search_items ==
  \E keyword \in Keywords :
    /\ call' = [op |-> "search_items", keyword |-> keyword]
    /\ ret' = search_scan(items, keyword)
    /\ UNCHANGED <<users, items, claims, files>>

claim_item ==
  /\ Len(items) + Len(claims) < MaxRecords
  /\ \E user_id \in UserIdArgs, item_id \in ItemIdArgs, n \in RandInts :
       LET claim == Claim(n, user_id, item_id)
       IN /\ claims' = Append(claims, claim)
          /\ files' = save_all(files, users, items, claims')
          /\ call' = [op |-> "claim_item", user_id |-> user_id,
                      item_id |-> item_id]
          /\ ret' = claim.claim_id
          /\ UNCHANGED <<users, items>>

approve_claim ==
  \E claim_id \in ClaimIdArgs :
    LET i == first_claim(claims, claim_id, 1)
    IN /\ call' = [op |-> "approve_claim", claim_id |-> claim_id]
       /\ IF i # 0
            THEN /\ claims' = [claims EXCEPT ![i].status = "approved"]
                 /\ items' = mark_claimed(items, claims[i].item_id)
                 /\ files' = save_all(files, users, items', claims')
                 /\ ret' = TRUE
            ELSE /\ ret' = FALSE
                 /\ UNCHANGED <<items, claims, files>>
       /\ UNCHANGED users

Next ==
  \/ login
  \/ report_item
  \/ search_items
  \/ claim_item
  \/ approve_claim

Spec == Init /\ [][Next]_vars

----------------------------------------------------------------------------
(* Vocabulary of the properties *)

Collections == <<users, items, claims, files>>

(* every file holds exactly the text json.dump writes for the in-memory list *)
FilesExact ==
  /\ files["users.json"] = json_dump(users)
  /\ files["items.json"] = json_dump(items)
  /\ files["claims.json"] = json_dump(claims)

(* every file, read back by load_data, gives the in-memory list *)
FilesLoadEqual ==
  /\ load_data(files["users.json"]) = users
  /\ load_data(files["items.json"]) = items
  /\ load_data(files["claims.json"]) = claims

(* the call that has just returned changed a collection *)
MutatingReturn ==
  \/ call.op \in {"report_item", "claim_item"}
  \/ call.op = "approve_claim" /\ ret = TRUE

(* positions of the claims carrying this identifier *)
ClaimsWithId(cls, claim_id) == { i \in 1..Len(cls) : cls[i].claim_id = claim_id }

(* the earliest of them *)
Earliest(S) == CHOOSE i \in S : \A j \in S : i <= j

(* a record with its status blanked: what must never change *)
Content(rec) == [rec EXCEPT !.status = "-"]

(* s is a contiguous part of t *)
IsSubstring(s, t) ==
  \E i \in 0..Len(t) : \E j \in i..Len(t) : SubSeq(t, i + 1, j) = s

NameMatches(it, keyword) == IsSubstring(lower(keyword), lower(it.name))

(* the sub-list of its, in order, whose names match keyword *)
RECURSIVE Matching(_, _, _)
Matching(its, keyword, n) ==
  IF n = 0 THEN <<>>
  ELSE IF NameMatches(its[n], keyword)
         THEN Append(Matching(its, keyword, n - 1), its[n])
         ELSE Matching(its, keyword, n - 1)

----------------------------------------------------------------------------
(* C1 as stated: whenever no operation is in progress, from construction  *)
(* on, each of the three files holds exactly the in-memory collection.    *)
C1_PersistedEqualsMemory == FilesExact

(* C1 amended: whenever no operation is in progress each file, read back  *)
(* through load_data (a file that does not parse reads as empty), gives   *)
(* the in-memory collection; and when a mutating operation (report_item,  *)
(* claim_item, successful approve_claim) has returned all three files     *)
(* hold exactly the in-memory collections.                                *)
C1_LoadedEqualsMemory ==
  /\ FilesLoadEqual
  /\ MutatingReturn => FilesExact

C1_Witness ==
  /\ call.op = "approve_claim" /\ ret = TRUE
  /\ \E j \in 1..Len(items) : items[j].status = "claimed"
  /\ FilesExact

(* C2: approve_claim(c) with c the id of some claim returns True, leaves  *)
(* the earliest such claim approved and every item carrying that claim's  *)
(* item_id claimed; with no such item the item collection is unchanged.   *)
C2_ApproveExisting ==
  [][ (call'.op = "approve_claim" /\ ClaimsWithId(claims, call'.claim_id) # {}) =>
        LET i == Earliest(ClaimsWithId(claims, call'.claim_id))
        IN /\ ret' = TRUE
           /\ Len(claims') = Len(claims)
           /\ claims'[i].status = "approved"
           /\ Len(items') = Len(items)
           /\ \A j \in 1..Len(items') :
                items'[j].item_id = claims[i].item_id => items'[j].status = "claimed"
           /\ (\A j \in 1..Len(items) : items[j].item_id # claims[i].item_id)
                => items' = items ]_vars

C2_Witness ==
  /\ call.op = "approve_claim" /\ ret = TRUE
  /\ \E i \in 1..Len(claims) :
       /\ claims[i].claim_id = call.claim_id
       /\ claims[i].status = "approved"
       /\ \E j, k \in 1..Len(items) :
            /\ j # k
            /\ items[j].item_id = claims[i].item_id
            /\ items[k].item_id = claims[i].item_id
            /\ items[j].status = "claimed" /\ items[k].status = "claimed"

(* C3: approve_claim(c) with c the id of no claim returns False and       *)
(* leaves users, items, claims and the three files as they were.          *)
C3_ApproveMissing ==
  [][ (call'.op = "approve_claim" /\ ClaimsWithId(claims, call'.claim_id) = {}) =>
        /\ ret' = FALSE
        /\ UNCHANGED Collections ]_vars

C3_Witness ==
  /\ call.op = "approve_claim" /\ ret = FALSE
  /\ claims # <<>>
  /\ ClaimsWithId(claims, call.claim_id) = {}

(* C4: report_item appends exactly one record, after the existing ones,   *)
(* with status "reported" and the name, description, location and         *)
(* item_type given (any item_type); it returns the new record's item_id   *)
(* and leaves users and claims alone.                                     *)
C4_ReportAppends ==
  [][ call'.op = "report_item" =>
        /\ Len(items') = Len(items) + 1
        /\ SubSeq(items', 1, Len(items)) = items
        /\ items'[Len(items')] =
             [item_id |-> ret', name |-> call'.name,
              description |-> call'.description, location |-> call'.location,
              item_type |-> call'.item_type, status |-> "reported"]
        /\ users' = users
        /\ claims' = claims ]_vars

C4_Witness ==
  /\ call.op = "report_item"
  /\ call.item_type \notin {"lost", "found"}
  /\ Len(items) = 2
  /\ items[2].item_id = ret
  /\ items[2].item_type = call.item_type
  /\ items[1].status = "claimed"

(* C5: claim_item(u, i) appends exactly one claim record with status      *)
(* "pending", user_id u and item_id i, whether or not u and i exist; it   *)
(* returns the new record's claim_id and leaves users and items alone.    *)
C5_ClaimAppends ==
  [][ call'.op = "claim_item" =>
        /\ Len(claims') = Len(claims) + 1
        /\ SubSeq(claims', 1, Len(claims)) = claims
        /\ claims'[Len(claims')] =
             [claim_id |-> ret', user_id |-> call'.user_id,
              item_id |-> call'.item_id, status |-> "pending"]
        /\ users' = users
        /\ items' = items ]_vars

C5_Witness ==
  /\ call.op = "claim_item"
  /\ Len(claims) = 2
  /\ claims[2] = [claim_id |-> ret, user_id |-> call.user_id,
                  item_id |-> call.item_id, status |-> "pending"]
  /\ \A j \in 1..Len(items) : items[j].item_id # call.item_id
  /\ \A k \in 1..Len(users) : users[k].id # call.user_id
  /\ items # <<>>

(* C6: login returns the first user record, in collection order, whose    *)
(* email and password both equal the arguments, None when there is none,  *)
(* and changes no collection.                                             *)
C6_LoginFirstMatch ==
  [][ call'.op = "login" =>
        LET hits == { k \in 1..Len(users) :
                        /\ users[k].email = call'.email
                        /\ users[k].password = call'.password }
        IN /\ hits # {} => ret' = users[Earliest(hits)]
           /\ hits = {} => ret' = None
           /\ UNCHANGED Collections ]_vars

C6_Witness ==
  /\ call.op = "login"
  /\ ret = Twin
  /\ \E k \in 1..Len(users) : users[k] = Bob
  /\ items # <<>>

(* C7: search_items(k) returns exactly the items whose lower-cased name   *)
(* contains the lower-cased k, in collection order; every item for the    *)
(* empty keyword; it changes no collection and writes no file.            *)
C7_SearchExact ==
  [][ call'.op = "search_items" =>
        /\ ret' = Matching(items, call'.keyword, Len(items))
        /\ call'.keyword = <<>> => ret' = items
        /\ UNCHANGED Collections ]_vars

C7_Witness ==
  /\ call.op = "search_items"
  /\ call.keyword = <<"a", "B">>
  /\ Len(items) = 2
  /\ ret = <<items[2]>>

(* C8: no step removes or reorders an item or a claim, or changes a field *)
(* of an existing one other than status, and no step changes the users.   *)
C8_Frame ==
  [][ /\ Len(items') >= Len(items)
      /\ \A j \in 1..Len(items) : Content(items'[j]) = Content(items[j])
      /\ Len(claims') >= Len(claims)
      /\ \A i \in 1..Len(claims) : Content(claims'[i]) = Content(claims[i])
      /\ users' = users ]_vars

C8_Witness ==
  /\ Len(items) = 2
  /\ items[1].status = "claimed"
  /\ items[2].status = "reported"
  /\ \E i \in 1..Len(claims) : claims[i].status = "approved"
  /\ users # <<>>

(* the status changes a step may make, and only as an approve_claim *)
StatusSteps ==
  /\ \A j \in 1..Len(items) :
       items'[j].status # items[j].status =>
         /\ items[j].status = "reported" /\ items'[j].status = "claimed"
         /\ call'.op = "approve_claim"
  /\ \A i \in 1..Len(claims) :
       claims'[i].status # claims[i].status =>
         /\ claims[i].status = "pending" /\ claims'[i].status = "approved"
         /\ call'.op = "approve_claim"

(* the step approves a claim that is approved already *)
ReApproval ==
  /\ call'.op = "approve_claim"
  /\ ClaimsWithId(claims, call'.claim_id) # {}
  /\ claims[Earliest(ClaimsWithId(claims, call'.claim_id))].status = "approved"

(* C9 as stated: the only status changes are reported -> claimed and      *)
(* pending -> approved, made by approve_claim only, and approving an      *)
(* approved claim again leaves every status as it is.                     *)
C9_ReApprovalChangesNothing ==
  [][ /\ StatusSteps
      /\ ReApproval => (items' = items /\ claims' = claims) ]_vars

(* C9 amended: the only status changes are reported -> claimed and        *)
(* pending -> approved, made by approve_claim only; approving an approved *)
(* claim again leaves every claim as it is and changes the status only of *)
(* still-reported items that carry that claim's item_id, to claimed.      *)
C9_StatusTransitions ==
  [][ /\ StatusSteps
      /\ ReApproval =>
           /\ claims' = claims
           /\ \A j \in 1..Len(items) :
                items'[j] # items[j] =>
                  /\ items[j].item_id =
                       claims[Earliest(ClaimsWithId(claims, call'.claim_id))].item_id
                  /\ items[j].status = "reported" ]_vars

C9_Witness ==
  /\ call.op = "approve_claim" /\ ret = TRUE
  /\ Len(items) = 2
  /\ items[1].item_id = items[2].item_id
  /\ items[1].status = "claimed" /\ items[2].status = "claimed"
  /\ Len(claims) = 1
  /\ claims[1].status = "approved"

(* C10: claims can share a claim_id; an approve_claim(c) changes at most  *)
(* one claim, the earliest one with id c, and marks only items carrying   *)
(* that claim's item_id; a claim filed after another with the same id is  *)
(* pending for ever.                                                      *)
C10_OnlyEarliestApproved ==
  /\ [](\A i, j \in 1..Len(claims) :
          (i < j /\ claims[i].claim_id = claims[j].claim_id)
            => claims[j].status = "pending")
  /\ [][ call'.op = "approve_claim" =>
           LET S == ClaimsWithId(claims, call'.claim_id)
           IN /\ \A i \in 1..Len(claims) :
                   claims'[i] # claims[i] => (S # {} /\ i = Earliest(S))
              /\ \A j \in 1..Len(items) :
                   items'[j] # items[j] =>
                     (S # {} /\ items[j].item_id = claims[Earliest(S)].item_id) ]_vars

C10_Witness ==
  /\ call.op = "approve_claim" /\ ret = TRUE
  /\ Len(claims) = 2
  /\ claims[1].claim_id = call.claim_id
  /\ claims[2].claim_id = call.claim_id
  /\ claims[1].status = "approved"
  /\ claims[2].status = "pending"
  /\ claims[1].item_id # claims[2].item_id
  /\ \E j \in 1..Len(items) :
       items[j].item_id = claims[2].item_id /\ items[j].status = "reported"

====
